---- MODULE Spec2Model ----
(***************************************************************************)
(* podb: a translation store kept in one SQLite table `po`, one text       *)
(* column per target language, one view "<lang>_po" per language listing   *)
(* the rows that language still misses, synchronised with .po catalogs.    *)
(*                                                                         *)
(* Language tags are sequences of one-character strings, so that           *)
(* lang.split('-') is computed and not assumed.  Message ids, comments,    *)
(* references and texts are strings.  A nullable SQL value is <<>> (NULL)  *)
(* or <<v>>.                                                               *)
(***************************************************************************)
EXTENDS Naturals, Sequences, FiniteSets, TLC

VARIABLES
    db,       \* the store file: [cols, views, rows]
    files,    \* the .po files of the working directory, by base name
    st,       \* "closed" | "open" | "failed": where the handle is in its scope
    langs,    \* Podb._langs
    cache,    \* functools.cache of Podb.lang: tag -> Lang instance number
    missing,  \* Podb._missing
    opened,   \* how many times the store has been opened
    edits,    \* how many times a catalog has been edited by hand
    last,     \* the last operation, its arguments and what it returned
    reg       \* where each concurrent writer is in Podb.lang: [pc, lang]

vars == <<db, files, st, langs, cache, missing, opened, edits, last, reg>>

----------------------------------------------------------------------------
(* Values *)

NULL == <<>>
Some(v) == <<v>>
Range(f) == {f[i] : i \in DOMAIN f}

EN == <<"e", "n">>
FR == <<"f", "r">>
FR_CA == <<"f", "r", "-", "C", "A">>
EN_GB == <<"e", "n", "_", "G", "B">>
EN_GB_H == <<"e", "n", "-", "G", "B">>
\* Tags a registration stumbles on: the name of a column the table is created
\* with, a name whose view would be "sqlite_po", a name with a double quote.
REF == <<"r", "e", "f">>
SQLITE == <<"s", "q", "l", "i", "t", "e">>
QUOTED == <<"a", "\"", "b">>

Tags == {EN, FR, FR_CA, EN_GB, EN_GB_H}
Msgids == {"hello"}
XComments == {"", "greeting"}
Refs == {"main"}
Texts == {"bonjour", "salut"}
Sentinels == {"?"}

\* The number of blocks a catalog may get by hand.
MaxEntries == 2
\* The number of edits made to the catalogs by hand.
MaxEdits == 2
\* The number of sessions (open ... close) a run goes through, when the
\* store is found with content and when it starts empty.
MaxSessions == 1
MaxSyncSessions == 2
\* The number of registrations one handle goes through, failed ones included.
MaxLangs == 3

----------------------------------------------------------------------------
(* Strings *)

\* '-' in lang
Contains(s, c) == \E i \in 1..Len(s) : s[i] = c

\* lang.split(c)[0]
RECURSIVE SplitHead(_, _)
SplitHead(s, c) ==
    IF s = <<>> \/ Head(s) = c THEN <<>>
    ELSE <<Head(s)>> \o SplitHead(Tail(s), c)

\* backup_lang = lang.split('-')[0] if '-' in lang else None
BackupLang(lang) ==
    IF Contains(lang, "-") THEN Some(SplitHead(lang, "-")) ELSE NULL

----------------------------------------------------------------------------
(* The store *)

Key(r) == <<r.en, r.xcomment>>

\* select ... from po where en = ? and xcomment = ?
Select(d, msgid, xcomment) ==
    {i \in 1..Len(d.rows) : Key(d.rows[i]) = <<msgid, xcomment>>}

\* HAS_LANG: count of sqlite_schema objects named lang || '_po', as == (0,)
HasLang(d, lang) == lang \in d.views

\* The columns CREATE gives the table.
BaseCols ==
    {<<"u", "p", "d", "a", "t", "e", "d", "_", "a", "t">>, REF,
     <<"x", "c", "o", "m", "m", "e", "n", "t">>, EN}

\* s starts with the characters of p.
StartsWith(s, p) == Len(s) >= Len(p) /\ SubSeq(s, 1, Len(p)) = p

\* SQLite keeps the object names that begin with "sqlite_" to itself.
ReservedName(name) == StartsWith(name, <<"s", "q", "l", "i", "t", "e", "_">>)

\* "<id>_po"
ViewName(lang) == lang \o <<"_", "p", "o">>

\* alter table po add column "<id>" text. The id is woven in between double
\* quotes: one that holds a double quote makes a script that does not parse,
\* and a column that is already there is refused.
Alter(d, lang) ==
    IF Contains(lang, "\"") \/ lang \in d.cols \cup BaseCols
    THEN [ok |-> FALSE, db |-> d]
    ELSE [ok |-> TRUE,
          db |-> [d EXCEPT !.cols = @ \cup {lang},
                           !.rows = [i \in 1..Len(d.rows) |->
                                       [d.rows[i] EXCEPT !.tr =
                                          [c \in d.cols \cup {lang} |->
                                             IF c = lang THEN NULL ELSE @[c]]]]]]

\* create view "<id>_po" as select ... from po where "<id>" is null
CreateView(d, lang) ==
    IF ReservedName(ViewName(lang)) \/ lang \in d.views
    THEN [ok |-> FALSE, db |-> d]
    ELSE [ok |-> TRUE, db |-> [d EXCEPT !.views = @ \cup {lang}]]

\* executescript(_add_lang(id)): the two statements run one after the other,
\* each committed as it ends; the second is not run when the first fails.
AddLang(d, lang) ==
    LET a == Alter(d, lang)
    IN IF a.ok THEN CreateView(a.db, lang) ELSE a

\* Podb._check_lang
CheckLang(d, lang) ==
    IF ~HasLang(d, lang) THEN AddLang(d, lang) ELSE [ok |-> TRUE, db |-> d]

\* ADD_ENTRY with ref and xcomment bound to each other's place.
AddEntrySwapped(d, ref, xcomment, msgid) ==
    [d EXCEPT !.rows = Append(@, [en |-> msgid, xcomment |-> ref,
                                  ref |-> Some(xcomment),
                                  tr |-> [c \in d.cols |-> NULL]])]

\* ADD_ENTRY: insert into po (updated_at, ref, xcomment, en)
AddEntry(d, ref, xcomment, msgid) ==
    [d EXCEPT !.rows = Append(@, [en |-> msgid, xcomment |-> xcomment,
                                  ref |-> Some(ref),
                                  tr |-> [c \in d.cols |-> NULL]])]

----------------------------------------------------------------------------
(* The handle: h = [db, langs, cache, missing] *)

Handle == [db |-> db, langs |-> langs, cache |-> cache, missing |-> missing]

\* Podb.lang without @functools.cache: the body runs on every call.
LangNoCache(h, lang) ==
    LET n == Cardinality(DOMAIN h.cache) + 1
    IN IF lang = EN
       THEN [ok |-> TRUE, inst |-> n,
             h |-> [h EXCEPT !.cache = [l \in DOMAIN @ \cup {lang} |->
                                          IF l = lang THEN n ELSE @[l]]]]
       ELSE LET h1 == [h EXCEPT !.langs = Append(@, lang)]
                r == CheckLang(h1.db, lang)
            IN [ok |-> r.ok, inst |-> n,
                h |-> [h1 EXCEPT !.db = r.db,
                                 !.cache = [l \in DOMAIN @ \cup {lang} |->
                                              IF l = lang THEN n ELSE @[l]]]]

\* Podb.lang without its first line: 'en' is registered as any other tag.
LangEnRegistered(h, lang) ==
    IF lang \in DOMAIN h.cache
    THEN [ok |-> TRUE, inst |-> h.cache[lang], h |-> h]
    ELSE LET n == Cardinality(DOMAIN h.cache) + 1
             h1 == [h EXCEPT !.langs = Append(@, lang)]
             r == CheckLang(h1.db, lang)
         IN IF r.ok
            THEN [ok |-> TRUE, inst |-> n,
                  h |-> [h1 EXCEPT !.db = r.db,
                                   !.cache = [l \in DOMAIN @ \cup {lang} |->
                                                IF l = lang THEN n ELSE @[l]]]]
            ELSE [ok |-> FALSE, inst |-> 0, h |-> [h1 EXCEPT !.db = r.db]]

\* Podb.lang that registers the backup language along with the language.
LangEager(h, lang) ==
    IF lang \in DOMAIN h.cache
    THEN [ok |-> TRUE, inst |-> h.cache[lang], h |-> h]
    ELSE IF lang = EN
    THEN LET n == Cardinality(DOMAIN h.cache) + 1
         IN [ok |-> TRUE, inst |-> n,
             h |-> [h EXCEPT !.cache = [l \in DOMAIN @ \cup {lang} |->
                                          IF l = lang THEN n ELSE @[l]]]]
    ELSE LET n == Cardinality(DOMAIN h.cache) + 1
             b == BackupLang(lang)
             more == IF b = NULL \/ b = Some(EN) \/ b[1] \in DOMAIN h.cache
                     THEN <<>> ELSE b
             h1 == [h EXCEPT !.langs = Append(@, lang) \o more]
             r == CheckLang(h1.db, lang)
             r2 == IF more = <<>> THEN r ELSE CheckLang(r.db, b[1])
         IN IF r.ok /\ r2.ok
            THEN [ok |-> TRUE, inst |-> n,
                  h |-> [h1 EXCEPT
                           !.db = r2.db,
                           !.cache = [l \in DOMAIN @ \cup {lang} \cup Range(more) |->
                                        IF l = lang THEN n
                                        ELSE IF l \in DOMAIN @ THEN @[l]
                                        ELSE n + 1]]]
            ELSE [ok |-> FALSE, inst |-> 0, h |-> [h1 EXCEPT !.db = r2.db]]

\* Podb.lang under functools.cache: [ok, inst, h]. A call that raises is not
\* cached; _langs.append has run by then, and so has what _check_lang did
\* before it raised.
Lang(h, lang) ==
    IF lang \in DOMAIN h.cache
    THEN [ok |-> TRUE, inst |-> h.cache[lang], h |-> h]
    ELSE IF lang = EN
    THEN LET n == Cardinality(DOMAIN h.cache) + 1
         IN [ok |-> TRUE, inst |-> n,
             h |-> [h EXCEPT !.cache = [l \in DOMAIN @ \cup {lang} |->
                                          IF l = lang THEN n ELSE @[l]]]]
    ELSE LET n == Cardinality(DOMAIN h.cache) + 1
             h1 == [h EXCEPT !.langs = Append(@, lang)]
             r == CheckLang(h1.db, lang)
         IN IF r.ok
            THEN [ok |-> TRUE, inst |-> n,
                  h |-> [h1 EXCEPT !.db = r.db,
                                   !.cache = [l \in DOMAIN @ \cup {lang} |->
                                                IF l = lang THEN n ELSE @[l]]]]
            ELSE [ok |-> FALSE, inst |-> 0, h |-> [h1 EXCEPT !.db = r.db]]

\* self._missing + msgid with the operands the other way round.
MissingSuffix(h, msgid) == msgid \o h.missing

\* self._missing + msgid
Missing(h, msgid) == h.missing \o msgid

RECURSIVE GetMsgstr(_, _, _, _, _)

\* get_msgstr that answers a null column with the sentinel, whatever the
\* backup language.
GetMsgstrNoBackup(h, lang, msgid, xcomment, ref) ==
    IF lang = EN THEN [ok |-> TRUE, ret |-> msgid, h |-> h]
    ELSE
    LET sel == Select(h.db, msgid, xcomment)
        col == IF sel = {} THEN NULL
               ELSE h.db.rows[CHOOSE i \in sel : TRUE].tr[lang]
        backup == BackupLang(lang)
    IN IF sel = {}
       THEN LET h1 == [h EXCEPT !.db = AddEntry(@, ref, xcomment, msgid)]
            IN IF backup = NULL
               THEN [ok |-> TRUE, ret |-> Missing(h, msgid), h |-> h1]
               ELSE LET l == Lang(h1, backup[1])
                    IN IF l.ok
                       THEN GetMsgstr(l.h, backup[1], msgid, xcomment, ref)
                       ELSE [ok |-> FALSE, ret |-> "", h |-> l.h]
       ELSE IF col = NULL
       THEN [ok |-> TRUE, ret |-> Missing(h, msgid), h |-> h]
       ELSE [ok |-> TRUE, ret |-> col[1], h |-> h]

\* get_msgstr that records the key again when it finds its column null.
GetMsgstrReinsert(h, lang, msgid, xcomment, ref) ==
    IF lang = EN THEN [ok |-> TRUE, ret |-> msgid, h |-> h]
    ELSE
    LET sel == Select(h.db, msgid, xcomment)
        col == IF sel = {} THEN NULL
               ELSE h.db.rows[CHOOSE i \in sel : TRUE].tr[lang]
        h1 == IF col = NULL
              THEN [h EXCEPT !.db = AddEntry(@, ref, xcomment, msgid)]
              ELSE h
        backup == BackupLang(lang)
    IN IF col = NULL
       THEN IF backup = NULL
            THEN [ok |-> TRUE, ret |-> Missing(h, msgid), h |-> h1]
            ELSE LET l == Lang(h1, backup[1])
                 IN IF l.ok
                    THEN GetMsgstr(l.h, backup[1], msgid, xcomment, ref)
                    ELSE [ok |-> FALSE, ret |-> "", h |-> l.h]
       ELSE [ok |-> TRUE, ret |-> col[1], h |-> h1]

\* Lang.__call__ -> get_msgstr of the closure made for `lang`: [ok, ret, h].
\* The translator of 'en' is the identity.
GetMsgstr(h, lang, msgid, xcomment, ref) ==
    IF lang = EN THEN [ok |-> TRUE, ret |-> msgid, h |-> h]
    ELSE
    LET sel == Select(h.db, msgid, xcomment)
        h1 == IF sel = {}
              THEN [h EXCEPT !.db = AddEntry(@, ref, xcomment, msgid)]
              ELSE h
        col == IF sel = {} THEN NULL
               ELSE h.db.rows[CHOOSE i \in sel : TRUE].tr[lang]
        backup == BackupLang(lang)
    IN IF col = NULL
       THEN IF backup = NULL
            THEN [ok |-> TRUE, ret |-> Missing(h, msgid), h |-> h1]
            ELSE LET l == Lang(h1, backup[1])
                 IN IF l.ok
                    THEN GetMsgstr(l.h, backup[1], msgid, xcomment, ref)
                    ELSE [ok |-> FALSE, ret |-> "", h |-> l.h]
       ELSE [ok |-> TRUE, ret |-> col[1], h |-> h1]

\* The translator calls one call of Lang.__call__ makes, itself included.
RECURSIVE Nested(_, _, _, _, _)
Nested(h, lang, msgid, xcomment, ref) ==
    IF lang = EN THEN 1
    ELSE
    LET sel == Select(h.db, msgid, xcomment)
        h1 == IF sel = {}
              THEN [h EXCEPT !.db = AddEntry(@, ref, xcomment, msgid)]
              ELSE h
        col == IF sel = {} THEN NULL
               ELSE h.db.rows[CHOOSE i \in sel : TRUE].tr[lang]
        backup == BackupLang(lang)
    IN IF col = NULL /\ backup # NULL
       THEN LET l == Lang(h1, backup[1])
            IN IF l.ok
               THEN 1 + Nested(l.h, backup[1], msgid, xcomment, ref)
               ELSE 1
       ELSE 1

\* Which branch of get_msgstr a call takes.
Case(d, lang, msgid, xcomment) ==
    IF lang = EN THEN "source"
    ELSE IF Select(d, msgid, xcomment) = {} THEN "miss"
    ELSE IF d.rows[CHOOSE i \in Select(d, msgid, xcomment) : TRUE].tr[lang] = NULL
    THEN "null"
    ELSE "hit"

----------------------------------------------------------------------------
(* The catalogs.  A file is [meta, entries]: meta is the header's Language *)
(* (NULL when the header declares none), entries are its blocks as         *)
(* polib.pofile yields them: [msgid, comment, ref, msgstr].                *)

FileNames == Tags \ {EN}

\* Letters, digits and underscore: what an unquoted SQL identifier is made of.
BareChars ==
    {"a", "b", "c", "d", "e", "f", "g", "h", "i", "j", "k", "l", "m", "n",
     "o", "p", "q", "r", "s", "t", "u", "v", "w", "x", "y", "z",
     "A", "B", "C", "D", "E", "F", "G", "H", "I", "J", "K", "L", "M", "N",
     "O", "P", "Q", "R", "S", "T", "U", "V", "W", "X", "Y", "Z",
     "0", "1", "2", "3", "4", "5", "6", "7", "8", "9", "_"}

\* `set {lang} = excluded."{lang}"`: the first {lang} is not quoted, so the
\* statement parses only when lang is a bare identifier.
UpsertParses(lang) == \A i \in 1..Len(lang) : lang[i] \in BareChars

\* _upsert as `insert or ignore`: a row that is there is left alone.
UpsertIgnore(d, lang, xcomment, msgid, msgstr) ==
    IF ~UpsertParses(lang) \/ lang \notin d.cols
    THEN [ok |-> FALSE, db |-> d]
    ELSE IF Select(d, msgid, xcomment) # {} THEN [ok |-> TRUE, db |-> d]
    ELSE [ok |-> TRUE,
          db |-> [d EXCEPT !.rows = Append(@,
                    [en |-> msgid, xcomment |-> xcomment, ref |-> NULL,
                     tr |-> [c \in d.cols |->
                               IF c = lang THEN Some(msgstr) ELSE NULL]])]]

\* _upsert as `insert or replace`: the whole row is written anew.
UpsertReplace(d, lang, xcomment, msgid, msgstr) ==
    IF ~UpsertParses(lang) \/ lang \notin d.cols
    THEN [ok |-> FALSE, db |-> d]
    ELSE LET sel == Select(d, msgid, xcomment)
             row == [en |-> msgid, xcomment |-> xcomment, ref |-> NULL,
                     tr |-> [c \in d.cols |->
                               IF c = lang THEN Some(msgstr) ELSE NULL]]
         IN IF sel = {}
            THEN [ok |-> TRUE, db |-> [d EXCEPT !.rows = Append(@, row)]]
            ELSE [ok |-> TRUE,
                  db |-> [d EXCEPT !.rows[CHOOSE i \in sel : TRUE] = row]]

\* db.execute(_upsert(lang), (comment, msgid, msgstr)): insert a row with
\* column lang set, or on conflict (en, xcomment) set column lang alone.
Upsert(d, lang, xcomment, msgid, msgstr) ==
    IF ~UpsertParses(lang) \/ lang \notin d.cols
    THEN [ok |-> FALSE, db |-> d]
    ELSE LET sel == Select(d, msgid, xcomment)
         IN IF sel = {}
            THEN [ok |-> TRUE,
                  db |-> [d EXCEPT !.rows = Append(@,
                            [en |-> msgid, xcomment |-> xcomment, ref |-> NULL,
                             tr |-> [c \in d.cols |->
                                       IF c = lang THEN Some(msgstr) ELSE NULL]])]]
            ELSE [ok |-> TRUE,
                  db |-> [d EXCEPT !.rows[CHOOSE i \in sel : TRUE].tr[lang] =
                                      Some(msgstr)]]

RECURSIVE ReadEntries(_, _, _)

\* The loop with `break` for `continue`: it stops at the first empty msgstr.
ReadEntriesBreak(d, lang, entries) ==
    IF entries = <<>> THEN [ok |-> TRUE, db |-> d]
    ELSE LET e == Head(entries)
         IN IF e.msgstr = "" THEN [ok |-> TRUE, db |-> d]
            ELSE LET u == Upsert(d, lang, e.comment, e.msgid, e.msgstr)
                 IN IF u.ok THEN ReadEntries(u.db, lang, Tail(entries))
                    ELSE u

\* for entry in po: skip an empty msgstr, upsert the others.
ReadEntries(d, lang, entries) ==
    IF entries = <<>> THEN [ok |-> TRUE, db |-> d]
    ELSE LET e == Head(entries)
         IN IF e.msgstr = "" THEN ReadEntries(d, lang, Tail(entries))
            ELSE LET u == Upsert(d, lang, e.comment, e.msgid, e.msgstr)
                 IN IF u.ok THEN ReadEntries(u.db, lang, Tail(entries))
                    ELSE u

\* po.metadata['Language'] if 'Language' in po.metadata else file[:-3]
FileLang(name, f) == IF f.meta # NULL THEN f.meta[1] ELSE name

\* Podb._read_pos over the files in the order os.listdir gives them:
\* [ok, db], db being what the connection holds before the commit.
RECURSIVE ReadPos(_, _, _)
ReadPos(d, fs, order) ==
    IF order = <<>> THEN [ok |-> TRUE, db |-> d]
    ELSE LET name == Head(order)
             f == fs[name][1]
             r == ReadEntries(d, FileLang(name, f), f.entries)
         IN IF r.ok THEN ReadPos(r.db, fs, Tail(order)) ELSE r

\* The orders os.listdir may give the files that exist.
ListDir(fs) ==
    LET present == {n \in DOMAIN fs : fs[n] # NULL}
    IN {o \in [1..Cardinality(present) -> present] :
          \A i, j \in DOMAIN o : o[i] = o[j] => i = j}

\* One row of the view "<id>_po" as the block it renders.
Block(r) == [msgid |-> r.en, comment |-> r.xcomment, ref |-> r.ref, msgstr |-> ""]

\* The view without its where clause: every row is listed.
RECURSIVE PoViewAll(_, _)
PoViewAll(rows, lang) ==
    IF rows = <<>> THEN <<>>
    ELSE <<Block(Head(rows))>> \o PoViewAll(Tail(rows), lang)

\* select entry from "<lang>_po": the rows where column lang is null, live.
RECURSIVE PoView(_, _)
PoView(rows, lang) ==
    IF rows = <<>> THEN <<>>
    ELSE IF Head(rows).tr[lang] = NULL
    THEN <<Block(Head(rows))>> \o PoView(Tail(rows), lang)
    ELSE PoView(Tail(rows), lang)

\* Podb._write_pos: [ok, files]. Each file is opened for writing and gets its
\* header before the view is read.
RECURSIVE WritePos(_, _, _)
WritePos(fs, d, ls) ==
    IF ls = <<>> THEN [ok |-> TRUE, files |-> fs]
    ELSE LET lang == Head(ls)
         IN IF lang \notin d.views
            THEN [ok |-> FALSE,
                  files |-> [fs EXCEPT ![lang] =
                               Some([meta |-> Some(lang), entries |-> <<>>])]]
            ELSE WritePos([fs EXCEPT ![lang] =
                             Some([meta |-> Some(lang),
                                   entries |-> PoView(d.rows, lang)])],
                          d, Tail(ls))

----------------------------------------------------------------------------
(* Operations *)

NoArgs == [lang |-> <<>>, msgid |-> "", xcomment |-> "",
           case |-> "", ret |-> "", inst |-> 0, ok |-> TRUE]

\* __enter__ with a commit after every upsert: what an import that raises
\* had written by then stays in the store.
OpenCommitEach(fresh, m, order) ==
    /\ st # "open"
    /\ opened' = opened + 1
    /\ order \in ListDir(files)
    /\ LET r == ReadPos(db, files, order)
       IN /\ db' = r.db
          /\ st' = IF r.ok THEN "open" ELSE "failed"
          /\ last' = [NoArgs EXCEPT !.ok = r.ok] @@ [op |-> "open"]
    /\ langs' = IF fresh THEN <<>> ELSE langs
    /\ cache' = IF fresh THEN <<>> ELSE cache
    /\ missing' = IF fresh THEN m ELSE missing
    /\ UNCHANGED <<files, edits, reg>>

\* Podb(...) when `fresh`, then __enter__: connect, create the table,
\* _read_pos. An import that raises leaves the scope before the commit.
Open(fresh, m, order) ==
    /\ st # "open"
    /\ opened' = opened + 1
    /\ order \in ListDir(files)
    /\ LET r == ReadPos(db, files, order)
       IN /\ db' = IF r.ok THEN r.db ELSE db
          /\ st' = IF r.ok THEN "open" ELSE "failed"
          /\ last' = [NoArgs EXCEPT !.ok = r.ok] @@ [op |-> "open"]
    /\ langs' = IF fresh THEN <<>> ELSE langs
    /\ cache' = IF fresh THEN <<>> ELSE cache
    /\ missing' = IF fresh THEN m ELSE missing
    /\ UNCHANGED <<files, edits, reg>>

\* __exit__ -> _close: _write_pos, then the connection is closed.
Close ==
    /\ st = "open"
    /\ LET w == WritePos(files, db, langs)
       IN /\ files' = w.files
          /\ last' = [NoArgs EXCEPT !.ok = w.ok] @@ [op |-> "close"]
    /\ st' = "closed"
    /\ UNCHANGED <<db, langs, cache, missing, opened, edits, reg>>

\* __exit__ entered with an exception of the body: _close runs and __exit__
\* returns None, so that exception goes on to the caller, unless _close
\* raises one of its own, which is then the one the caller gets.
Abort ==
    /\ st = "open"
    /\ LET w == WritePos(files, db, langs)
       IN /\ files' = w.files
          /\ last' = [NoArgs EXCEPT !.ok = w.ok, !.case = "raised",
                         !.ret = IF w.ok THEN "body" ELSE "export"]
                      @@ [op |-> "close"]
    /\ st' = "closed"
    /\ UNCHANGED <<db, langs, cache, missing, opened, edits, reg>>

\* po_db.lang(lang)
LangCall(lang) ==
    /\ st = "open"
    /\ LET r == Lang(Handle, lang)
       IN /\ db' = r.h.db
          /\ langs' = r.h.langs
          /\ cache' = r.h.cache
          /\ last' = [NoArgs EXCEPT !.lang = lang, !.inst = r.inst, !.ok = r.ok,
                         !.case = IF lang \in DOMAIN cache THEN "cached" ELSE "new"]
                      @@ [op |-> "lang"]
    /\ UNCHANGED <<files, st, missing, opened, edits, reg>>

\* translator(msgid, xcomment, ref) on a Lang obtained from po_db.lang
Call(lang, msgid, xcomment, ref) ==
    /\ st = "open"
    /\ lang \in DOMAIN cache
    /\ LET r == GetMsgstr(Handle, lang, msgid, xcomment, ref)
       IN /\ db' = r.h.db
          /\ langs' = r.h.langs
          /\ cache' = r.h.cache
          /\ last' = [op |-> "call", lang |-> lang, msgid |-> msgid,
                      xcomment |-> xcomment,
                      case |-> Case(db, lang, msgid, xcomment),
                      ret |-> r.ret, inst |-> cache[lang], ok |-> r.ok]
    /\ UNCHANGED <<files, st, missing, opened, edits, reg>>

\* A translator fills in the text of a block of a catalog.
Fill(name, i, text) ==
    /\ st # "open"
    /\ files[name] # NULL
    /\ i \in 1..Len(files[name][1].entries)
    /\ files[name][1].entries[i].msgstr = ""
    /\ files' = [files EXCEPT ![name][1].entries[i].msgstr = text]
    /\ edits' = edits + 1
    /\ last' = NoArgs @@ [op |-> "edit"]
    /\ UNCHANGED <<db, st, langs, cache, missing, opened, reg>>

\* A catalog is written by hand, block by block; a file begun by hand has a
\* header that declares no Language.
AddBlock(name, e) ==
    /\ st # "open"
    /\ IF files[name] = NULL
       THEN files' = [files EXCEPT ![name] = Some([meta |-> NULL, entries |-> <<e>>])]
       ELSE /\ Len(files[name][1].entries) < MaxEntries
            /\ files' = [files EXCEPT ![name][1].entries = Append(@, e)]
    /\ edits' = edits + 1
    /\ last' = NoArgs @@ [op |-> "edit"]
    /\ UNCHANGED <<db, st, langs, cache, missing, opened, reg>>

----------------------------------------------------------------------------
(* Writers that register a language at the same time, each with a handle   *)
(* of its own on the one store                                             *)

Writers == {"A", "B"}

Idle == [pc |-> "idle", lang |-> <<>>]

\* Podb.lang up to the test of _check_lang: the count of HAS_LANG is read.
RegCheck(w, lang) ==
    /\ reg[w].pc \in {"idle", "done", "failed"}
    /\ reg' = [reg EXCEPT ![w] =
                 [pc |-> IF HasLang(db, lang) THEN "done" ELSE "checked",
                  lang |-> lang]]
    /\ UNCHANGED <<db, files, st, langs, cache, missing, opened, edits, last>>

\* executescript, first statement: alter table po add column
RegAlter(w) ==
    /\ reg[w].pc = "checked"
    /\ LET a == Alter(db, reg[w].lang)
       IN /\ db' = a.db
          /\ reg' = [reg EXCEPT ![w].pc = IF a.ok THEN "altered" ELSE "failed"]
    /\ UNCHANGED <<files, st, langs, cache, missing, opened, edits, last>>

\* executescript, second statement: create view
RegView(w) ==
    /\ reg[w].pc = "altered"
    /\ LET v == CreateView(db, reg[w].lang)
       IN /\ db' = v.db
          /\ reg' = [reg EXCEPT ![w].pc = IF v.ok THEN "done" ELSE "failed"]
    /\ UNCHANGED <<files, st, langs, cache, missing, opened, edits, last>>

----------------------------------------------------------------------------
(* Specifications *)

Keys == Msgids \X XComments

\* The stores a first open may find: the file does not exist yet, or it is a
\* store of this schema with some columns and at most one row.
RowsOver(cols) ==
    [en : Msgids, xcomment : {""}, ref : {NULL},
     tr : [cols -> {NULL} \cup {Some(t) : t \in Texts}]]

Stores(tags) ==
    UNION {
      {[cols |-> cols, views |-> cols, rows |-> rows] :
         rows \in {<<>>} \cup {<<r>> : r \in RowsOver(cols)}} :
      cols \in SUBSET (tags \ {EN})}

FreshStore == [cols |-> {}, views |-> {}, rows |-> <<>>]

InitWith(stores) ==
    /\ db \in stores
    /\ files = [n \in FileNames |-> NULL]
    /\ st = "closed"
    /\ langs = <<>>
    /\ cache = <<>>
    /\ missing \in Sentinels
    /\ opened = 0
    /\ edits = 0
    /\ last = NoArgs @@ [op |-> "init"]
    /\ reg = [w \in Writers |-> Idle]

LookupTags == {EN, FR, FR_CA, EN_GB_H}

Init == InitWith(Stores(LookupTags))

Next ==
    \/ \E fresh \in BOOLEAN, m \in Sentinels, order \in ListDir(files) :
          opened < MaxSessions /\ Open(fresh, m, order)
    \/ Close
    \/ \E lang \in LookupTags : LangCall(lang)
    \/ \E lang \in LookupTags, msgid \in Msgids, xcomment \in XComments, ref \in Refs :
          Call(lang, msgid, xcomment, ref)

Spec == Init /\ [][Next]_vars

SyncTags == {FR, EN_GB}

Blocks ==
    [msgid : Msgids, comment : {""}, ref : {NULL}, msgstr : Texts \cup {""}]

InitSync == InitWith({FreshStore})

\* Catalogs are edited between sessions, while a session is still to come.
NextSync ==
    \/ \E fresh \in BOOLEAN, m \in Sentinels, order \in ListDir(files) :
          opened < MaxSyncSessions /\ Open(fresh, m, order)
    \/ Close
    \/ \E lang \in SyncTags : LangCall(lang)
    \/ \E lang \in SyncTags, msgid \in Msgids, xcomment \in XComments, ref \in Refs :
          Call(lang, msgid, xcomment, ref)
    \/ \E name \in SyncTags, i \in 1..MaxEntries, text \in Texts :
          edits < MaxEdits /\ opened < MaxSyncSessions /\ Fill(name, i, text)
    \/ \E name \in SyncTags, e \in Blocks :
          edits < MaxEdits /\ opened < MaxSyncSessions /\ AddBlock(name, e)

SpecSync == InitSync /\ [][NextSync]_vars

\* Catalogs written by hand are imported into a store found with content.
InitGrow == InitWith(Stores(SyncTags))

NextGrow ==
    \/ \E fresh \in BOOLEAN, m \in Sentinels, order \in ListDir(files) :
          opened < MaxSessions /\ Open(fresh, m, order)
    \/ Close
    \/ \E lang \in SyncTags : LangCall(lang)
    \/ \E lang \in SyncTags, msgid \in Msgids, xcomment \in XComments, ref \in Refs :
          Call(lang, msgid, xcomment, ref)
    \/ \E name \in SyncTags, i \in 1..MaxEntries, text \in Texts :
          edits < MaxEdits /\ opened < MaxSessions /\ Fill(name, i, text)
    \/ \E name \in SyncTags, e \in Blocks :
          edits < MaxEdits /\ opened < MaxSessions /\ AddBlock(name, e)

SpecGrow == InitGrow /\ [][NextGrow]_vars

\* The workflow: a session records what it misses and exports it, the
\* catalogs are filled in, and a later session imports them.
FlowTags == {FR, FR_CA}

InitFlow == InitWith({FreshStore})

NextFlow ==
    \/ \E fresh \in BOOLEAN, m \in Sentinels, order \in ListDir(files) :
          opened < MaxSyncSessions /\ Open(fresh, m, order)
    \/ Close
    \/ \E lang \in FlowTags : LangCall(lang)
    \/ \E lang \in FlowTags, msgid \in Msgids, xcomment \in XComments, ref \in Refs :
          Call(lang, msgid, xcomment, ref)
    \/ \E name \in FlowTags, i \in 1..MaxEntries, text \in Texts :
          edits < MaxEdits /\ opened < MaxSyncSessions /\ Fill(name, i, text)

SpecFlow == InitFlow /\ [][NextFlow]_vars

RegTags == {FR, FR_CA, REF, SQLITE, QUOTED}

InitReg ==
    /\ db = FreshStore
    /\ files = [n \in RegTags |-> NULL]
    /\ st = "closed"
    /\ langs = <<>>
    /\ cache = <<>>
    /\ missing \in Sentinels
    /\ opened = 0
    /\ edits = 0
    /\ last = NoArgs @@ [op |-> "init"]
    /\ reg = [w \in Writers |-> Idle]

\* Sessions whose body registers tags that fail as well as tags that work,
\* and leaves its scope by its end or by an exception.
NextReg ==
    \/ \E fresh \in BOOLEAN, m \in Sentinels, order \in ListDir(files) :
          opened < MaxSyncSessions /\ Open(fresh, m, order)
    \/ Close
    \/ Abort
    \/ \E lang \in RegTags : Len(langs) < MaxLangs /\ LangCall(lang)
    \/ \E lang \in RegTags, msgid \in Msgids, ref \in Refs :
          Call(lang, msgid, "", ref)

SpecReg == InitReg /\ [][NextReg]_vars

RaceTags == {FR, FR_CA, EN_GB}

InitRace == InitWith(Stores(RaceTags))

NextRace ==
    \/ \E w \in Writers, lang \in RaceTags : RegCheck(w, lang)
    \/ \E w \in Writers : RegAlter(w)
    \/ \E w \in Writers : RegView(w)

SpecRace == InitRace /\ [][NextRace]_vars

----------------------------------------------------------------------------
(* Lookup and fallback *)

\* The handle after the step, as a translator call would find it.
HandleAfter ==
    [db |-> db', langs |-> langs', cache |-> cache', missing |-> missing']

\* The row of key (msgid, xcomment), when there is one.
RowOf(d, msgid, xcomment) == d.rows[CHOOSE i \in Select(d, msgid, xcomment) : TRUE]

\* Row r2 is row r1, but for columns added since, which are null.
SameRow(r1, r2) ==
    /\ r2.en = r1.en /\ r2.xcomment = r1.xcomment /\ r2.ref = r1.ref
    /\ \A c \in DOMAIN r2.tr :
          r2.tr[c] = IF c \in DOMAIN r1.tr THEN r1.tr[c] ELSE NULL

\* C1: a translator call of a registered non-source language on a key that
\* has no row completes and appends exactly one row of that key, with the
\* given reference and every translation column null; every row that was
\* there stays as it was.
C1_MissRecordsEntry ==
    [][\A lang \in LookupTags \ {EN}, msgid \in Msgids,
          xcomment \in XComments, ref \in Refs :
          (/\ Select(db, msgid, xcomment) = {}
           /\ last'.lang = lang /\ last'.msgid = msgid /\ last'.xcomment = xcomment
           /\ Call(lang, msgid, xcomment, ref))
          => /\ last'.ok
             /\ Len(db'.rows) = Len(db.rows) + 1
             /\ \A i \in 1..Len(db.rows) : SameRow(db.rows[i], db'.rows[i])
             /\ Cardinality(Select(db', msgid, xcomment)) = 1
             /\ LET r == RowOf(db', msgid, xcomment)
                IN /\ r.ref = Some(ref)
                   /\ DOMAIN r.tr = db'.cols
                   /\ (({lang} \cup Range(BackupLang(lang))) \ {EN}) \subseteq db'.cols
                   /\ \A c \in db'.cols : r.tr[c] = NULL]_vars

\* A miss through fr-CA has been recorded next to a row that was there.
C1_Witness ==
    /\ last.op = "call" /\ last.case = "miss" /\ last.lang = FR_CA /\ last.ok
    /\ Len(db.rows) = 2
    /\ db.rows[1].tr[FR] # NULL
    /\ db.rows[2].ref # NULL

\* C2: for a language L with fallback F, (a) a non-null column L is returned
\* as stored, whatever column F holds; (b) with the row absent or column L
\* null, the call returns what translator_F returns for the same key in the
\* same store.
C2_FallbackResolution ==
    [][\A lang \in LookupTags \ {EN}, msgid \in Msgids,
          xcomment \in XComments, ref \in Refs :
          (/\ BackupLang(lang) # NULL
           /\ last'.lang = lang /\ last'.msgid = msgid /\ last'.xcomment = xcomment
           /\ Call(lang, msgid, xcomment, ref))
          => LET F == BackupLang(lang)[1]
                 direct == GetMsgstr(Lang(Handle, F).h, F, msgid, xcomment, ref)
             IN IF Case(db, lang, msgid, xcomment) = "hit"
                THEN last'.ret = RowOf(db, msgid, xcomment).tr[lang][1]
                ELSE last'.ok /\ direct.ok /\ last'.ret = direct.ret]_vars

\* fr-CA has answered from column fr, its own column being null.
C2_Witness ==
    /\ last.op = "call" /\ last.lang = FR_CA /\ last.case = "null"
    /\ \E t \in Texts : last.ret = t

\* C3 as claimed: en_GB falls back to en as en-GB does, so a call through
\* either that finds no translation answers with the msgid, as the identity
\* translator of en does.
C3_UnderscoreFallsBack ==
    (last.op = "call" /\ last.lang \in {EN_GB, EN_GB_H}
       /\ last.case \in {"miss", "null"})
    => last.ret = last.msgid

\* C4 as claimed: a language with no fallback answers a key with no
\* translation with the sentinel itself.
C4_ReturnsSentinel ==
    (last.op = "call" /\ last.lang # EN /\ BackupLang(last.lang) = NULL
       /\ last.case \in {"miss", "null"})
    => last.ret = missing

\* C4, amended: a language with no fallback answers a key with no
\* translation with the sentinel followed by the msgid.
C4_ReturnsSentinelAndMsgid ==
    (last.op = "call" /\ last.lang # EN /\ BackupLang(last.lang) = NULL
       /\ last.case \in {"miss", "null"})
    => last.ret = missing \o last.msgid

\* fr, which has no fallback, has answered for a row whose column fr is null.
C4_Witness ==
    /\ last.op = "call" /\ last.lang = FR /\ last.case = "null"
    /\ last.ret = missing \o last.msgid

\* C14: after any translator call, the same call made again returns what
\* the first returned and leaves the store and the handle as they are; and
\* a call on a key that had its row, column null or not, inserts no row and
\* changes none.
C14_RepeatedLookupStable ==
    [][\A lang \in LookupTags, msgid \in Msgids,
          xcomment \in XComments, ref \in Refs :
          (/\ last'.lang = lang /\ last'.msgid = msgid /\ last'.xcomment = xcomment
           /\ Call(lang, msgid, xcomment, ref))
          => /\ last'.ok
             /\ GetMsgstr(HandleAfter, lang, msgid, xcomment, ref)
                = [ok |-> TRUE, ret |-> last'.ret, h |-> HandleAfter]
             /\ Select(db, msgid, xcomment) # {}
                => /\ Len(db'.rows) = Len(db.rows)
                   /\ \A i \in 1..Len(db.rows) :
                         SameRow(db.rows[i], db'.rows[i])]_vars

\* fr-CA has been asked a second time for a key that a lookup recorded, and
\* has found the row with its column null.
C14_Witness ==
    /\ last.op = "call" /\ last.lang = FR_CA /\ last.case = "null" /\ last.ok
    /\ Len(db.rows) = 1
    /\ db.rows[1].ref = Some("main")
    /\ FR \in db.cols

\* len(lang.split('-'))
Components(lang) == 1 + Cardinality({i \in 1..Len(lang) : lang[i] = "-"})

\* C19: a translator call makes at most as many translator calls, itself
\* included, as its tag has components; a call that finds no text has its
\* backup language in the cache of po_db.lang afterwards, and in _langs and
\* the columns unless it is 'en'; a call that finds its text, and the
\* registration of a language, register no other language.
C19_FallbackLazy ==
    [][/\ \A lang \in LookupTags, msgid \in Msgids,
             xcomment \in XComments, ref \in Refs :
             (/\ last'.lang = lang /\ last'.msgid = msgid
              /\ last'.xcomment = xcomment
              /\ Call(lang, msgid, xcomment, ref))
             => /\ last'.ok
                /\ Nested(Handle, lang, msgid, xcomment, ref) <= Components(lang)
                /\ IF last'.case \in {"miss", "null"} /\ BackupLang(lang) # NULL
                   THEN LET F == BackupLang(lang)[1]
                        IN /\ DOMAIN cache' = DOMAIN cache \cup {F}
                           /\ Nested(Handle, lang, msgid, xcomment, ref) = 2
                           /\ F # EN => (F \in Range(langs') /\ F \in db'.cols)
                   ELSE /\ langs' = langs /\ cache' = cache
                        /\ db'.cols = db.cols /\ db'.views = db.views
       /\ \A lang \in LookupTags :
             (last'.lang = lang /\ LangCall(lang))
             => /\ DOMAIN cache' = DOMAIN cache \cup {lang}
                /\ Range(langs') = Range(langs) \cup ({lang} \ ({EN} \cup DOMAIN cache))
                /\ db'.cols \subseteq db.cols \cup {lang}
                /\ db'.views \subseteq db.views \cup {lang}]_vars

\* fr-CA, registered on a store that has no column fr, has found its text:
\* fr is still not registered.
C19_Witness ==
    /\ last.op = "call" /\ last.lang = FR_CA /\ last.case = "hit"
    /\ langs = <<FR_CA>>
    /\ DOMAIN cache = {FR_CA}
    /\ db.cols = {FR_CA}

----------------------------------------------------------------------------
(* Import and export *)

OpenStep ==
    \E fresh \in BOOLEAN, m \in Sentinels, order \in ListDir(files) :
        Open(fresh, m, order)

\* The catalogs of language L: the files whose language is L.
Catalogs(L) ==
    {n \in FileNames : files[n] # NULL /\ FileLang(n, files[n][1]) = L}

EntryKey(e) == <<e.msgid, e.comment>>

\* Some catalog of L gives key k a non-empty text.
Named(L, k) ==
    \E n \in Catalogs(L) : \E i \in DOMAIN files[n][1].entries :
        /\ EntryKey(files[n][1].entries[i]) = k
        /\ files[n][1].entries[i].msgstr # ""

\* Catalog file f lists key k.
Listed(f, k) ==
    f # NULL /\ \E i \in DOMAIN f[1].entries : EntryKey(f[1].entries[i]) = k

\* What translator_L answers for key k after the step.
AnswerAfter(L, k) ==
    GetMsgstr(Lang(HandleAfter, L).h, L, k[1], k[2], "main").ret

\* Keys that no catalog gives a text keep their row, or their lack of one.
EmptyTextChangesNothing ==
    \A k \in Keys :
        (\A L \in FileNames : ~Named(L, k))
        => IF Select(db, k[1], k[2]) = {} THEN Select(db', k[1], k[2]) = {}
           ELSE /\ Select(db', k[1], k[2]) # {}
                /\ RowOf(db', k[1], k[2]) = RowOf(db, k[1], k[2])

\* C5 as claimed: after an import that completes, every entry with a
\* non-empty text in the catalog of a language L that has its column has
\* its row, with column L equal to that text, which translator_L returns;
\* entries with an empty text change nothing.
C5_ImportStoresEveryEntry ==
    [][(OpenStep /\ st' = "open")
       => /\ \A L \in db.cols : \A n \in Catalogs(L) :
                \A i \in DOMAIN files[n][1].entries :
                    LET e == files[n][1].entries[i]
                    IN e.msgstr # ""
                       => /\ Select(db', e.msgid, e.comment) # {}
                          /\ RowOf(db', e.msgid, e.comment).tr[L] = Some(e.msgstr)
                          /\ AnswerAfter(L, EntryKey(e)) = e.msgstr
          /\ EmptyTextChangesNothing]_vars

\* C5, amended: after an import that completes, a key that the catalog of L
\* gives a non-empty text has its row, and column L holds the text of the
\* last entry of that key with a non-empty text, which translator_L returns;
\* entries with an empty text change nothing.
C5_ImportStoresLastEntry ==
    [][(OpenStep /\ st' = "open")
       => /\ \A L \in db.cols : \A n \in Catalogs(L) :
                \A i \in DOMAIN files[n][1].entries :
                    LET es == files[n][1].entries
                        e == es[i]
                    IN (/\ e.msgstr # ""
                        /\ Cardinality(Catalogs(L)) = 1
                        /\ \A j \in DOMAIN es :
                              (j > i /\ EntryKey(es[j]) = EntryKey(e))
                              => es[j].msgstr = "")
                       => /\ Cardinality(Select(db', e.msgid, e.comment)) = 1
                          /\ RowOf(db', e.msgid, e.comment).tr[L] = Some(e.msgstr)
                          /\ AnswerAfter(L, EntryKey(e)) = e.msgstr
          /\ EmptyTextChangesNothing]_vars

\* An import has stored the second of two texts a catalog gives one key.
C5_Witness ==
    /\ last.op = "open" /\ last.ok
    /\ files[FR] # NULL
    /\ Len(files[FR][1].entries) = 2
    /\ EntryKey(files[FR][1].entries[1]) = EntryKey(files[FR][1].entries[2])
    /\ files[FR][1].entries[1].msgstr = "bonjour"
    /\ files[FR][1].entries[2].msgstr = "salut"
    /\ Len(db.rows) = 1
    /\ db.rows[1].tr[FR] = Some("salut")

\* C6 as claimed: opening a store that has no column for L, with a catalog
\* of L in the working directory, succeeds and stores every entry of the
\* catalog that has a text.
C6_ImportBeforeRegistration ==
    [][\A L \in FileNames :
          (OpenStep /\ L \notin db.cols /\ \E k \in Keys : Named(L, k))
          => /\ st' = "open"
             /\ L \in db'.cols
             /\ \A k \in Keys :
                   Named(L, k)
                   => /\ Select(db', k[1], k[2]) # {}
                      /\ RowOf(db', k[1], k[2]).tr[L] # NULL]_vars

\* C7: an import changes, in a row that was there, only the columns of the
\* languages whose catalogs give the row's key a text; the row keeps its
\* place, its reference and every other column, and the schema is the same.
C7_ColumnScopedUpsert ==
    [][(OpenStep /\ st' = "open")
       => /\ db'.cols = db.cols /\ db'.views = db.views
          /\ Len(db'.rows) >= Len(db.rows)
          /\ \A i \in 1..Len(db.rows) :
                /\ Key(db'.rows[i]) = Key(db.rows[i])
                /\ db'.rows[i].ref = db.rows[i].ref
                /\ \A c \in db.cols :
                      ~Named(c, Key(db.rows[i]))
                      => db'.rows[i].tr[c] = db.rows[i].tr[c]
          /\ \A i \in Len(db.rows) + 1 .. Len(db'.rows) :
                \A c \in db.cols :
                    ~Named(c, Key(db'.rows[i])) => db'.rows[i].tr[c] = NULL]_vars

\* An import has left a row recorded by a lookup with its reference, the
\* text of fr and the text of en_GB.
C7_Witness ==
    /\ last.op = "open" /\ last.ok
    /\ db.cols = {FR, EN_GB}
    /\ \E i \in DOMAIN db.rows :
          /\ db.rows[i].ref # NULL
          /\ db.rows[i].tr[FR] # NULL
          /\ db.rows[i].tr[EN_GB] # NULL
    /\ Listed(files[FR], <<"hello", "greeting">>)
    /\ Listed(files[EN_GB], <<"hello", "greeting">>)

\* C8: the close writes, for every language of _langs, a file with exactly
\* one block, of empty text, for each row whose column is null and none for
\* the others; it writes no other file, none for 'en', and leaves the store
\* as it is.
C8_GapOnlyExport ==
    [][Close
       => /\ db' = db
          /\ EN \notin Range(langs)
          /\ \A n \in FileNames :
                IF n \in Range(langs)
                THEN /\ files'[n] # NULL
                     /\ files'[n][1].meta = Some(n)
                     /\ \A i \in DOMAIN files'[n][1].entries :
                           files'[n][1].entries[i].msgstr = ""
                     /\ \A k \in Keys :
                           Cardinality({i \in DOMAIN files'[n][1].entries :
                                          EntryKey(files'[n][1].entries[i]) = k})
                           = IF /\ Select(db, k[1], k[2]) # {}
                                /\ RowOf(db, k[1], k[2]).tr[n] = NULL
                             THEN 1 ELSE 0
                ELSE files'[n] = files[n]]_vars

\* A close has written the catalog of fr-CA with both rows and that of fr,
\* registered as its fallback, with the one row fr misses; 'en' has been
\* asked for and en-GB has no file.
C8_Witness ==
    /\ last.op = "close" /\ last.ok
    /\ langs = <<FR_CA, FR>>
    /\ EN \in DOMAIN cache
    /\ files[EN_GB_H] = NULL
    /\ Len(db.rows) = 2
    /\ db.rows[1].tr[FR] # NULL /\ db.rows[1].tr[FR_CA] = NULL
    /\ db.rows[2].tr[FR] = NULL /\ db.rows[2].tr[FR_CA] = NULL
    /\ files[FR][1].entries = <<Block(db.rows[2])>>
    /\ files[FR_CA][1].entries = <<Block(db.rows[1]), Block(db.rows[2])>>

\* C9 as claimed: a session that imported the catalog of fr and exports
\* with fr active lists a key of that catalog if and only if the catalog
\* gave it an empty text.
C9_ListedIffEmpty ==
    [][(Close /\ FR \in Range(langs) /\ files[FR] # NULL)
       => \A i \in DOMAIN files[FR][1].entries :
              LET e == files[FR][1].entries[i]
              IN Listed(files'[FR], EntryKey(e)) <=> e.msgstr = ""]_vars

\* C9, amended: the export lists no key the catalog gave a non-empty text;
\* a key it gave an empty text is listed if and only if the store has a row
\* of that key whose column fr is null.
C9_ListedIfRowMissesText ==
    [][(Close /\ FR \in Range(langs) /\ files[FR] # NULL)
       => \A i \in DOMAIN files[FR][1].entries :
              LET e == files[FR][1].entries[i]
              IN IF e.msgstr # ""
                 THEN ~Listed(files'[FR], EntryKey(e))
                 ELSE Listed(files'[FR], EntryKey(e))
                      <=> /\ Select(db, e.msgid, e.comment) # {}
                          /\ RowOf(db, e.msgid, e.comment).tr[FR] = NULL]_vars

\* A session has imported a text of fr and exported: the key is in the
\* store with its text and the catalog of fr, written anew, is empty.
C9_Witness ==
    /\ last.op = "close" /\ last.ok
    /\ FR \in Range(langs)
    /\ Len(db.rows) = 1
    /\ db.rows[1].tr[FR] # NULL
    /\ db.rows[1].ref = NULL
    /\ files[FR] # NULL /\ files[FR][1].entries = <<>>

\* C17: an open whose import fails on a catalog raises to its caller and
\* leaves the store as it was: no entry of the failing catalog, nor of a
\* catalog read before it, is in the store.
C17_ImportAllOrNothing ==
    [][(OpenStep /\ st' # "open")
       => /\ ~last'.ok /\ st' = "failed"
          /\ db' = db]_vars

\* An open has failed on the catalog of en_GB, whose column the store has
\* not, with a text in the catalog of fr that the store, which has the row
\* and the column, has not taken.
C17_Witness ==
    /\ last.op = "open" /\ ~last.ok /\ st = "failed"
    /\ EN_GB \notin db.cols /\ Named(EN_GB, <<"hello", "">>)
    /\ FR \in db.cols /\ Named(FR, <<"hello", "">>)
    /\ Select(db, "hello", "") # {}
    /\ RowOf(db, "hello", "").tr[FR] = NULL

\* C18: no step removes a row, a column or a view, and no step turns a
\* translation that is not null into null.
C18_StoreOnlyGrows ==
    [][/\ db.cols \subseteq db'.cols
       /\ db.views \subseteq db'.views
       /\ Len(db'.rows) >= Len(db.rows)
       /\ \A k \in Keys :
             Select(db, k[1], k[2]) # {}
             => /\ Select(db', k[1], k[2]) # {}
                /\ \A c \in db.cols :
                      RowOf(db, k[1], k[2]).tr[c] # NULL
                      => RowOf(db', k[1], k[2]).tr[c] # NULL]_vars

\* An import has given a row that was found with the text of fr the text
\* of en_GB as well, and a lookup has then added a row.
C18_Witness ==
    /\ last.op = "call" /\ last.case = "miss"
    /\ db.cols = {FR, EN_GB} /\ db.views = {FR, EN_GB}
    /\ Len(db.rows) = 2
    /\ db.rows[1].ref = NULL
    /\ db.rows[1].tr[FR] # NULL /\ db.rows[1].tr[EN_GB] # NULL
    /\ Named(EN_GB, Key(db.rows[1])) /\ ~Named(FR, Key(db.rows[1]))

\* C20 as claimed: the close of a session lists, in the catalog of every
\* language it registered, the keys whose column is null and no other; and
\* an open that finds a text filled in for a key in the catalog of a
\* language that has its column succeeds, after which the translator of that
\* language returns the text.
C20_Workflow ==
    [][/\ Close
          => \A L \in Range(langs), k \in Keys :
                Select(db, k[1], k[2]) # {}
                => (Listed(files'[L], k)
                    <=> RowOf(db, k[1], k[2]).tr[L] = NULL)
       /\ OpenStep
          => \A L \in FlowTags \cap db.cols : \A n \in Catalogs(L) :
                \A i \in DOMAIN files[n][1].entries :
                    LET e == files[n][1].entries[i]
                    IN e.msgstr # ""
                       => /\ st' = "open"
                          /\ AnswerAfter(L, EntryKey(e)) = e.msgstr]_vars

NoDup(s) == \A i, j \in DOMAIN s : s[i] = s[j] => i = j

----------------------------------------------------------------------------
(* Registration *)

\* A tag made of letters, digits and underscores only.
Restricted(lang) == \A i \in 1..Len(lang) : lang[i] \in BareChars

\* C11 as claimed: po_db.lang(L) with a tag L that holds a character other
\* than a letter, a digit or an underscore fails, and leaves the columns and
\* the views as they were and L out of _langs.
C11_MalformedRejected ==
    [][\A lang \in RegTags :
          (LangCall(lang) /\ ~Restricted(lang))
          => /\ ~last'.ok
             /\ db' = db
             /\ lang \notin Range(langs')]_vars

\* C12: po_db.lang('en') succeeds and its translator returns the msgid as it
\* is, whatever the comment and the reference; neither step changes the
\* store, its columns and views, _langs or a catalog, and 'en' is never in
\* _langs, the list the export goes through.
C12_SourceIdentity ==
    /\ [](EN \notin Range(langs))
    /\ [][/\ LangCall(EN)
             => /\ last'.ok
                /\ db' = db /\ langs' = langs /\ files' = files
          /\ \A msgid \in Msgids, xcomment \in XComments, ref \in Refs :
                (/\ last'.lang = EN /\ last'.msgid = msgid
                 /\ last'.xcomment = xcomment
                 /\ Call(EN, msgid, xcomment, ref))
                => /\ last'.ok /\ last'.ret = msgid
                   /\ db' = db /\ langs' = langs /\ cache' = cache
                   /\ files' = files]_vars

\* The translator of 'en' has answered for a key the store has no row of,
\* in a session that has registered fr.
C12_Witness ==
    /\ last.op = "call" /\ last.lang = EN /\ last.ret = "hello"
    /\ last.xcomment = "greeting"
    /\ Select(db, "hello", "greeting") = {}
    /\ langs = <<FR>>

\* C15 as claimed: in every state, after a registration that failed as in
\* any other, the table has column L if and only if the view of L exists.
C15_ColumnIffView ==
    \A L \in RegTags \ BaseCols : L \in db.cols <=> L \in db.views

\* C16 as claimed: whatever way the registrations of two writers interleave,
\* none of them fails, and one that is over has left the column and the
\* view of its language in the schema.
C16_BenignRace ==
    \A w \in Writers :
        /\ reg[w].pc # "failed"
        /\ reg[w].pc = "done"
           => (reg[w].lang \in db.cols /\ reg[w].lang \in db.views)

----------------------------------------------------------------------------
(* The scope *)

\* C13 as claimed: a scope that was entered is left through the export and
\* through it alone, the catalogs change at no other step, and when the
\* body raised an exception it is that exception the caller gets.
C13_GuaranteedRelease ==
    [][/\ (st = "open" /\ st' # "open")
          => /\ Close \/ Abort
             /\ files' = WritePos(files, db, langs).files
             /\ last'.case = "raised" => last'.ret = "body"
       /\ files' # files => (st = "open" /\ st' = "closed")]_vars

====
